---- MODULE Spec2Model ----
(***************************************************************************)
(* A model of the NASA APOD web application (src/main.py, src/database.py).*)
(* The state is the relational store (users, favorites), the session       *)
(* tokens issued so far and a small pool of in-flight HTTP requests.  Each  *)
(* handler is cut at the points where control can pass to another request: *)
(* between two database statements of different requests (several worker   *)
(* processes share one store) and at every await on the upstream API.      *)
(***************************************************************************)
EXTENDS Integers, Sequences, FiniteSets, TLC

\* ------------------------------------------------------------------ bounds
NumReq == 2          \* request slots that can be in flight at once
MaxRequests == 5     \* requests started in one behaviour
MaxFavId == 3        \* favorites.id values handed out in one behaviour
MaxHome == 1         \* requests for the home page among them

\* ------------------------------------------------------------- text, dates
\* A string is a sequence of one-character strings, so that parsing and
\* formatting are computed and not assumed.
Digits == <<"0", "1", "2", "3", "4", "5", "6", "7", "8", "9">>

IsDigit(c) == \E i \in 1..10 : Digits[i] = c

DigitVal(c) == (CHOOSE i \in 1..10 : Digits[i] = c) - 1

AllDigits(s) == \A i \in 1..Len(s) : IsDigit(s[i])

RECURSIVE ToInt(_)
ToInt(s) == IF s = <<>> THEN 0
            ELSE 10 * ToInt(SubSeq(s, 1, Len(s) - 1)) + DigitVal(s[Len(s)])

\* str.split(sep) of Python: the fields between the separators, empty fields kept.
RECURSIVE Split(_, _)
Split(s, sep) ==
    IF \A i \in 1..Len(s) : s[i] # sep THEN <<s>>
    ELSE LET k == CHOOSE i \in 1..Len(s) :
                      s[i] = sep /\ \A j \in 1..(i - 1) : s[j] # sep
         IN  <<SubSeq(s, 1, k - 1)>> \o Split(SubSeq(s, k + 1, Len(s)), sep)

IsLeap(y) == (y % 4 = 0 /\ y % 100 # 0) \/ y % 400 = 0

DaysInMonth(y, m) ==
    IF m = 2 THEN (IF IsLeap(y) THEN 29 ELSE 28)
    ELSE IF m \in {4, 6, 9, 11} THEN 30 ELSE 31

\* The outcome of a parse: a date, or the ValueError strptime raises.
ValueError == [ok |-> FALSE, y |-> 0, m |-> 0, d |-> 0]

MkDate(y, m, d) == [ok |-> TRUE, y |-> y, m |-> m, d |-> d]

\* datetime.strptime(s, "%Y-%m-%d").date(): %Y is exactly four digits, %m and
\* %d are one or two digits (1[0-2]|0[1-9]|[1-9] and 3[01]|[12]\d|0[1-9]|[1-9]),
\* the whole string must match, and the fields must name a calendar date.
StrptimeOf(s) ==
    LET f == Split(s, "-") IN
    IF Len(f) # 3 THEN ValueError
    ELSE IF ~(Len(f[1]) = 4 /\ AllDigits(f[1])) THEN ValueError
    ELSE IF ~(Len(f[2]) \in {1, 2} /\ AllDigits(f[2])) THEN ValueError
    ELSE IF ~(Len(f[3]) \in {1, 2} /\ AllDigits(f[3])) THEN ValueError
    ELSE LET y == ToInt(f[1])
             m == ToInt(f[2])
             d == ToInt(f[3])
         IN  IF y >= 1 /\ m \in 1..12 /\ d >= 1 /\ d <= DaysInMonth(y, m)
             THEN MkDate(y, m, d)
             ELSE ValueError

Pad(n, w) ==
    [i \in 1..w |->
        LET p == w - i
            q == IF p = 0 THEN n
                 ELSE IF p = 1 THEN n \div 10
                 ELSE IF p = 2 THEN n \div 100 ELSE n \div 1000
        IN  Digits[(q % 10) + 1]]

\* date.strftime("%Y-%m-%d")
StrftimeOf(dt) == Pad(dt.y, 4) \o <<"-">> \o Pad(dt.m, 2) \o <<"-">> \o Pad(dt.d, 2)

S_0701 == <<"2", "0", "2", "5", "-", "0", "7", "-", "0", "1">>
S_0706 == <<"2", "0", "2", "5", "-", "0", "7", "-", "0", "6">>
S_Lenient == <<"2", "0", "2", "5", "-", "7", "-", "1">>
S_Invalid == <<"i", "n", "v", "a", "l", "i", "d", "-", "d", "a", "t", "e">>
S_Feb30 == <<"2", "0", "2", "5", "-", "0", "2", "-", "3", "0">>
S_Empty == <<>>

\* The query parameter of GET / as the handler receives it: absent (None in
\* the code), or present with its text.
NoParam == [present |-> FALSE, text |-> <<>>]
Param(s) == [present |-> TRUE, text |-> s]
RootDateInputs == {NoParam} \cup {Param(s) : s \in {S_Empty, S_0701, S_Lenient, S_Invalid, S_Feb30}}
FavDateInputs == {S_0701, S_0706, S_Invalid}

\* The parse of the request texts, computed once.
ParsedInputs ==
    [s \in FavDateInputs \cup {S_Empty, S_0701, S_Lenient, S_Invalid, S_Feb30} |-> StrptimeOf(s)]

Strptime(s) == IF s \in DOMAIN ParsedInputs THEN ParsedInputs[s] ELSE StrptimeOf(s)

\* datetime.utcnow().date()
Today == MkDate(2025, 7, 6)

\* The text of the dates the requests can name, computed once.
FormattedDates ==
    [dt \in {ParsedInputs[s] : s \in {t \in DOMAIN ParsedInputs : ParsedInputs[t].ok}}
             \cup {Today} |-> StrftimeOf(dt)]

Strftime(dt) == IF dt \in DOMAIN FormattedDates THEN FormattedDates[dt] ELSE StrftimeOf(dt)

\* ------------------------------------------------------------ credentials
Usernames == {"alice", "bob"}
Passwords == {"pw1", "pw2"}

\* get_password_hash / verify_password: a digest of the password, checked by
\* recomputing it.
get_password_hash(password) == <<"digest", password>>

verify_password(password, hashed) == get_password_hash(password) = hashed

\* A part of a cookie value between two spaces: a plain word, or a token
\* with its claims, the state of its signature and of its expiry.
Word(w) == [text |-> w, sub |-> "", sig |-> "", exp |-> ""]
Jwt(sub, sig, exp) == [text |-> "jwt", sub |-> sub, sig |-> sig, exp |-> exp]

\* create_access_token(data={"sub": username}, expires_delta=30 minutes)
create_access_token(username) == Jwt(username, "good", "fresh")

\* The access_token cookie of a request: absent, or present with the parts
\* that value.split(" ") yields.
NoCookie == [present |-> FALSE, parts |-> <<>>]
Cookie(parts) == [present |-> TRUE, parts |-> parts]
Bearer(tok) == Cookie(<<Word("Bearer"), tok>>)

\* The cookies a client can send: none, a value without a space, a Bearer
\* value whose token is malformed or forged, and the tokens the server has
\* issued, within their lifetime or after it.
CookieInputs(tokensIssued) ==
    {NoCookie, Cookie(<<Word("garbage")>>), Bearer(Word("malformed"))}
    \cup {Bearer(Jwt("alice", "forged", "fresh"))}
    \cup {Bearer(Jwt(u, "good", e)) : u \in tokensIssued, e \in {"fresh", "expired"}}

\* A handler that omits the test of the cookie.
has_token_unchecked(cookie) == TRUE

\* token = request.cookies.get("access_token"); if token: ...
has_token(cookie) == cookie.present

\* -------------------------------------------------------------------- store
NoUser == [id |-> 0, username |-> "", hashed_password |-> <<>>]

\* db.query(User).filter(User.username == username).first()
UserByName(table, username) ==
    IF \E i \in 1..Len(table) : table[i].username = username
    THEN table[CHOOSE i \in 1..Len(table) :
                   table[i].username = username
                   /\ \A j \in 1..(i - 1) : table[j].username # username]
    ELSE NoUser

\* verify(token) of the token service, then the lookup of its subject:
\* the user the token names, or NoUser on every failure (the signature does
\* not verify, the token is malformed or expired, the subject is not stored).
\* Whether the failure is raised or returned, read_root ends with no user
\* and add_favorite / favorites end in an unhandled exception.
get_current_user(tok, table) ==
    IF tok.text = "jwt" /\ tok.sig = "good" /\ tok.exp = "fresh"
    THEN UserByName(table, tok.sub)
    ELSE NoUser

\* db.query(Favorite).filter_by(owner_id=.., apod_date=..).first(): the id of
\* the first matching row in table order, 0 when there is none.
FavoriteFirst(table, owner, date) ==
    IF \E i \in 1..Len(table) : table[i].owner_id = owner /\ table[i].apod_date = date
    THEN table[CHOOSE i \in 1..Len(table) :
                   /\ table[i].owner_id = owner /\ table[i].apod_date = date
                   /\ \A j \in 1..(i - 1) :
                          ~(table[j].owner_id = owner /\ table[j].apod_date = date)].id
    ELSE 0

\* db.query(Favorite).filter_by(owner_id=..).all(): the rows in table order.
FavoritesOf(table, owner) == SelectSeq(table, LAMBDA row : row.owner_id = owner)

\* db.delete(favorite); db.commit(): DELETE ... WHERE id = ?, which removes
\* nothing when the row is already gone.
DeleteFavorite(table, id) == SelectSeq(table, LAMBDA row : row.id # id)

\* db.add(Favorite(apod_date=.., owner_id=..)); db.commit(): the table has no
\* constraint besides its primary key.
InsertFavorite(table, id, owner, date) ==
    Append(table, [id |-> id, owner_id |-> owner, apod_date |-> date])

\* ---------------------------------------------------------------- responses
NoBody == [kind |-> "", date |-> <<>>]
\* The JSON object upstream returns for a date, and its error object.
ApodBody(datestr) == [kind |-> "apod", date |-> datestr]
ErrorBody(datestr) == [kind |-> "error", date |-> datestr]
\* A body that is not JSON, such as the error page of a gateway.
HtmlBody(datestr) == [kind |-> "html", date |-> datestr]

NoResponse ==
    [status |-> 0, view |-> "", location |-> "", error |-> "", date |-> <<>>,
     set_cookie |-> NoCookie, user |-> 0, is_favorite |-> FALSE,
     apod |-> NoBody, apods |-> <<>>]

\* templates.TemplateResponse(view, {..., "error": error})
ErrorView(view, error, datestr) ==
    [NoResponse EXCEPT !.status = 200, !.view = view, !.error = error, !.date = datestr]

\* RedirectResponse(url=location, status_code=303)
Redirect(location, datestr) ==
    [NoResponse EXCEPT !.status = 303, !.view = "redirect", !.location = location,
                       !.date = datestr]

\* An exception that leaves the handler: the server answers 500.
Unhandled(exc) == [NoResponse EXCEPT !.status = 500, !.view = "server_error", !.error = exc]

\* ----------------------------------------------------------------- requests
Req == 1..NumReq

NoResult == [arrived |-> FALSE, status |-> 0, body |-> NoBody]

IdleRequest ==
    [pc |-> "idle", kind |-> "", cookie |-> NoCookie, username |-> "", password |-> "",
     date |-> NoParam, user |-> 0, found |-> 0, current_date |-> ValueError,
     favorites_read |-> FALSE, outcome |-> "",
     fetches |-> <<>>, results |-> <<>>, order |-> <<>>, resp |-> NoResponse]

VARIABLES
    users,       \* the users table, in insertion order
    favorites,   \* the favorites table, in insertion order
    nextFavId,   \* the next favorites.id
    issued,      \* the usernames a session token was issued for
    req,         \* the request in each slot
    started,     \* the number of requests started
    home,        \* the number of requests for the home page among them
    signedUp     \* the <<username, password>> pairs of the signups that succeeded

vars == <<users, favorites, nextFavId, issued, req, started, home, signedUp>>

Init ==
    /\ users = <<>>
    /\ favorites = <<>>
    /\ nextFavId = 1
    /\ issued = {}
    /\ req = [r \in Req |-> IdleRequest]
    /\ started = 0
    /\ home = 0
    /\ signedUp = {}

\* A new request takes the first slot that holds no request in flight (which
\* slot serves a request has no meaning in the program).
Vacant(r) == req[r].pc \in {"idle", "done"}

Free(r) == Vacant(r) /\ (\A q \in 1..(r - 1) : ~Vacant(q)) /\ started < MaxRequests

Finish(rq, response) == [rq EXCEPT !.pc = "done", !.resp = response]

\* The slots when request rq arrives in slot r: the responses of the finished
\* requests have been delivered and leave their slots.
Accept(r, rq) ==
    [q \in Req |-> IF q = r THEN rq
                   ELSE IF req[q].pc = "done" THEN IdleRequest ELSE req[q]]

\* ------------------------------------------------------------- POST /signup
\* signup, up to the commit: the lookup of the username.
signup_lookup(username, password, table) ==
    LET rq == [IdleRequest EXCEPT !.kind = "signup", !.username = username,
                                  !.password = password]
    IN  IF UserByName(table, username) # NoUser
        THEN Finish(rq, ErrorView("signup.html", "Username already exists", <<>>))
        ELSE [rq EXCEPT !.pc = "signup_commit"]

Signup(r) ==
    /\ Free(r)
    /\ \E username \in Usernames, password \in Passwords :
           req' = Accept(r, signup_lookup(username, password, users))
    /\ started' = started + 1
    /\ UNCHANGED <<users, favorites, nextFavId, issued, home, signedUp>>

\* db.add(new_user); db.commit(): users.username is unique, so the commit of a
\* username that is stored by now raises IntegrityError, which signup does
\* not catch.
signup_commit_ok(username, table) == UserByName(table, username) = NoUser

SignupCommit(r) ==
    /\ req[r].pc = "signup_commit"
    /\ IF signup_commit_ok(req[r].username, users)
       THEN /\ users' = Append(users,
                   [id |-> Len(users) + 1, username |-> req[r].username,
                    hashed_password |-> get_password_hash(req[r].password)])
            /\ signedUp' = signedUp \cup {<<req[r].username, req[r].password>>}
            /\ req' = [req EXCEPT ![r] = Finish(@, Redirect("/login", <<>>))]
       ELSE /\ users' = users
            /\ signedUp' = signedUp
            /\ req' = [req EXCEPT ![r] = Finish(@, Unhandled("IntegrityError"))]
    /\ UNCHANGED <<favorites, nextFavId, issued, started, home>>

\* -------------------------------------------------------------- POST /login
\* A login that looks the username up and never verifies the password.
login_ok_unverified(username, password, table) == UserByName(table, username) # NoUser

\* user = ...first(); not (not user or not verify_password(...))
login_ok(username, password, table) ==
    LET user == UserByName(table, username)
    IN  user # NoUser /\ verify_password(password, user.hashed_password)

login(username, password, table) ==
    LET rq == [IdleRequest EXCEPT !.kind = "login", !.username = username,
                                  !.password = password]
    IN  IF ~login_ok(username, password, table)
        THEN Finish(rq, ErrorView("login.html", "Invalid username or password", <<>>))
        ELSE Finish(rq, [Redirect("/", <<>>) EXCEPT
                            !.set_cookie = Bearer(create_access_token(username))])

Login(r) ==
    /\ Free(r)
    /\ \E username \in Usernames, password \in Passwords :
           /\ req' = Accept(r, login(username, password, users))
           /\ issued' = IF req'[r].resp.set_cookie.present
                        THEN issued \cup {username} ELSE issued
    /\ started' = started + 1
    /\ UNCHANGED <<users, favorites, nextFavId, home, signedUp>>

\* ----------------------------------------------------------- POST /favorite
\* add_favorite up to its commit: the cookie, the session, the date and the
\* lookup of the favorite.
add_favorite_lookup(cookie, datestr, utable, ftable) ==
    LET rq == [IdleRequest EXCEPT !.kind = "favorite", !.cookie = cookie,
                                  !.date = Param(datestr)]
    IN  IF ~has_token(cookie)
        THEN Finish(rq, Redirect("/login", <<>>))
        ELSE IF Len(cookie.parts) < 2
        THEN Finish(rq, Unhandled("IndexError"))
        ELSE LET user == get_current_user(cookie.parts[2], utable)
                 date_obj == Strptime(datestr)
             IN  IF ~date_obj.ok
                 THEN Finish(rq, Unhandled("ValueError"))
                 ELSE IF user = NoUser
                 THEN Finish(rq, Unhandled("NoSession"))
                 ELSE [rq EXCEPT !.pc = "favorite_commit", !.user = user.id,
                                 !.favorites_read = TRUE,
                                 !.current_date = date_obj,
                                 !.found = FavoriteFirst(ftable, user.id, date_obj)]

AddFavorite(r) ==
    /\ Free(r)
    /\ nextFavId <= MaxFavId
    /\ \E cookie \in CookieInputs(issued), datestr \in FavDateInputs :
           req' = Accept(r, add_favorite_lookup(cookie, datestr, users, favorites))
    /\ started' = started + 1
    /\ UNCHANGED <<users, favorites, nextFavId, issued, home, signedUp>>

\* The write of add_favorite and its commit.
add_favorite_write(rq, ftable, id) ==
    IF rq.found # 0
    THEN DeleteFavorite(ftable, rq.found)
    ELSE InsertFavorite(ftable, id, rq.user, rq.current_date)

AddFavoriteCommit(r) ==
    /\ req[r].pc = "favorite_commit"
    /\ req[r].found = 0 => nextFavId <= MaxFavId
    /\ favorites' = add_favorite_write(req[r], favorites, nextFavId)
    /\ nextFavId' = IF req[r].found = 0 THEN nextFavId + 1 ELSE nextFavId
    /\ req' = [req EXCEPT ![r] = Finish(@, Redirect("/?date=", req[r].date.text))]
    /\ UNCHANGED <<users, issued, started, home, signedUp>>

\* -------------------------------------------------------------------- GET /
\* The session of read_root: every failure of the lookup is swallowed.
read_root_user(cookie, utable) ==
    IF has_token(cookie) /\ Len(cookie.parts) >= 2
    THEN get_current_user(cookie.parts[2], utable).id
    ELSE 0

\* A handler that serves today's picture when the date does not parse.
read_root_date_defaulting(date) ==
    IF date.present /\ date.text # <<>> /\ Strptime(date.text).ok
    THEN Strptime(date.text)
    ELSE Today

\* The date of read_root: the parameter parsed when it is given and not
\* empty ("if date:"), today otherwise.
read_root_date(date) ==
    IF date.present /\ date.text # <<>> THEN Strptime(date.text) ELSE Today

\* read_root up to the await of the upstream fetch.
read_root_start(cookie, date, utable) ==
    LET rq == [IdleRequest EXCEPT !.kind = "root", !.cookie = cookie, !.date = date,
                                  !.user = read_root_user(cookie, utable)]
        current_date == read_root_date(date)
    IN  IF ~current_date.ok
        THEN Finish(rq, ErrorView("index.html",
                        "Invalid date format. Please use YYYY-MM-DD.", <<>>))
        ELSE [rq EXCEPT !.pc = "root_await", !.current_date = current_date,
                        !.fetches = <<Strftime(current_date)>>]

ReadRoot(r) ==
    /\ Free(r)
    /\ home < MaxHome
    /\ \E cookie \in CookieInputs(issued), date \in RootDateInputs :
           req' = Accept(r, read_root_start(cookie, date, users))
    /\ started' = started + 1
    /\ home' = home + 1
    /\ UNCHANGED <<users, favorites, nextFavId, issued, signedUp>>

\* What get_nasa_apod_data ends with: the JSON of a 2xx response, an
\* HTTPStatusError from raise_for_status (404 or another status), a
\* transport failure (httpx.RequestError), or any other exception.
FetchOutcomes == {"ok", "status_404", "status_other", "request_error", "other_error"}

\* read_root from the end of the fetch to its response.
read_root_finish(rq, outcome, ftable) ==
    LET datestr == Strftime(rq.current_date)
        rqo == [rq EXCEPT !.outcome = outcome]
    IN
    IF outcome = "ok"
    THEN Finish([rqo EXCEPT !.favorites_read = (rq.user # 0)],
                [NoResponse EXCEPT
                        !.status = 200, !.view = "index.html",
                        !.apod = ApodBody(rq.fetches[1]), !.date = datestr,
                        !.user = rq.user,
                        !.is_favorite = (rq.user # 0
                            /\ FavoriteFirst(ftable, rq.user, rq.current_date) # 0)])
    ELSE IF outcome = "status_404"
    THEN Finish(rqo, ErrorView("index.html", "No APOD found for", datestr))
    ELSE IF outcome = "status_other"
    THEN Finish(rqo, Unhandled("HTTPStatusError"))
    ELSE IF outcome = "request_error"
    THEN Finish(rqo, ErrorView("index.html", "RequestError", <<>>))
    ELSE Finish(rqo, Unhandled("Exception"))

ReadRootFetched(r) ==
    /\ req[r].pc = "root_await"
    /\ \E outcome \in FetchOutcomes :
           req' = [req EXCEPT ![r] = read_root_finish(@, outcome, favorites)]
    /\ UNCHANGED <<users, favorites, nextFavId, issued, started, home, signedUp>>

\* ----------------------------------------------------------- GET /favorites
DateStrings(favs) == [i \in 1..Len(favs) |-> Strftime(favs[i].apod_date)]

\* A collection of the responses in the order of their arrival.
gather_as_completed(results, order) == [k \in 1..Len(order) |-> results[order[k]].body]

\* responses = await asyncio.gather(*tasks); apods = [res.json() ...]: the
\* bodies in the order of the tasks.
gather(results, order) == [i \in 1..Len(results) |-> results[i].body]

FavoritesPage(rq, apods) ==
    Finish(rq, [NoResponse EXCEPT !.status = 200, !.view = "favorites.html",
                                  !.user = rq.user, !.apods = apods])

\* favorites up to the await of the fetches: one client.get per stored row.
favorites_start(cookie, utable, ftable) ==
    LET rq == [IdleRequest EXCEPT !.kind = "favorites", !.cookie = cookie]
    IN  IF ~has_token(cookie)
        THEN Finish(rq, Redirect("/login", <<>>))
        ELSE IF Len(cookie.parts) < 2
        THEN Finish(rq, Unhandled("IndexError"))
        ELSE LET user == get_current_user(cookie.parts[2], utable)
                 favs == FavoritesOf(ftable, user.id)
                 rq2 == [rq EXCEPT !.user = user.id, !.fetches = DateStrings(favs),
                                   !.favorites_read = TRUE,
                                   !.results = [i \in 1..Len(favs) |-> NoResult]]
             IN  IF user = NoUser
                 THEN Finish(rq, Unhandled("NoSession"))
                 ELSE IF favs = <<>>
                 THEN FavoritesPage(rq2, <<>>)
                 ELSE [rq2 EXCEPT !.pc = "favorites_await"]

Favorites(r) ==
    /\ Free(r)
    /\ \E cookie \in CookieInputs(issued) :
           req' = Accept(r, favorites_start(cookie, users, favorites))
    /\ started' = started + 1
    /\ UNCHANGED <<users, favorites, nextFavId, issued, home, signedUp>>

\* What one client.get ends with: a response of some status (no
\* raise_for_status here), with a JSON body or, from a gateway, an HTML one,
\* or an exception.
GetOutcomes == {"status_200", "status_404", "status_503", "raise"}

\* A handler that calls raise_for_status before it reads the body.
res_json_ok_status_checked(res) == res.status = 200 /\ res.body.kind # "html"

\* res.json(): the body parsed, or the JSONDecodeError it raises.
res_json_ok(res) == res.body.kind # "html"

\* The end of the i-th fetch: gather raises the first exception of a task,
\* and returns once every task has its response.
favorites_arrive(rq, i, outcome) ==
    LET res == [arrived |-> TRUE,
                status |-> IF outcome = "status_200" THEN 200
                           ELSE IF outcome = "status_404" THEN 404 ELSE 503,
                body |-> IF outcome = "status_200" THEN ApodBody(rq.fetches[i])
                         ELSE IF outcome = "status_404" THEN ErrorBody(rq.fetches[i])
                         ELSE HtmlBody(rq.fetches[i])]
        rq2 == [rq EXCEPT !.results[i] = res, !.order = Append(@, i)]
    IN  IF outcome = "raise"
        THEN Finish([rq EXCEPT !.outcome = outcome], Unhandled("RequestError"))
        ELSE IF \E j \in 1..Len(rq2.results) : ~rq2.results[j].arrived
        THEN rq2
        ELSE IF \E j \in 1..Len(rq2.results) : ~res_json_ok(rq2.results[j])
        THEN Finish(rq2, Unhandled("JSONDecodeError"))
        ELSE FavoritesPage(rq2, gather(rq2.results, rq2.order))

FavoritesFetched(r) ==
    /\ req[r].pc = "favorites_await"
    /\ \E i \in 1..Len(req[r].results), outcome \in GetOutcomes :
           /\ ~req[r].results[i].arrived
           /\ req' = [req EXCEPT ![r] = favorites_arrive(@, i, outcome)]
    /\ UNCHANGED <<users, favorites, nextFavId, issued, started, home, signedUp>>

\* The handlers of the accounts.
NextAccounts == \E r \in Req : Signup(r) \/ SignupCommit(r) \/ Login(r)

\* The handlers of the favorites.
NextFavorites ==
    \E r \in Req : AddFavorite(r) \/ AddFavoriteCommit(r) \/ Favorites(r) \/ FavoritesFetched(r)

\* The handler of the home page.
NextHome == \E r \in Req : ReadRoot(r) \/ ReadRootFetched(r)

Next == NextAccounts \/ NextFavorites \/ NextHome

Spec == Init /\ [][Next]_vars

\* The home page writes nothing, so the store evolves as under Spec when
\* its requests are left out; and the listing of the favorites plays no part
\* in what the home page answers.
SpecAccounts == Init /\ [][NextAccounts]_vars

SpecFavorites == Init /\ [][NextAccounts \/ NextFavorites]_vars

SpecHome == Init /\ [][NextAccounts \/ NextHome]_vars

\* =================================================================== claims
\* The request whose handler took the step, if any.
Acted(r) == req'[r] # req[r] /\ req'[r].kind # ""

\* The rows of a favorites table for one owner and one date.
Rows(table, owner, date) ==
    {i \in 1..Len(table) : table[i].owner_id = owner /\ table[i].apod_date = date}

Present(table, owner, date) == Rows(table, owner, date) # {}

\* The commit of a toggle by the request in slot r.
Toggled(r) == req[r].pc = "favorite_commit" /\ req'[r].pc = "done"

\* C1: the favorites table never holds two rows with the same owner and the
\* same date, whatever the order of the steps of the POST /favorite requests.
C1_AtMostOneFavoritePerPair ==
    \A i, j \in 1..Len(favorites) :
        (favorites[i].owner_id = favorites[j].owner_id
         /\ favorites[i].apod_date = favorites[j].apod_date) => i = j

\* Two toggles of one user for one date that were in flight together (a slot
\* is taken only while the slots before it are busy) and have both committed.
BothToggled ==
    /\ \A r \in {1, 2} : req[r].pc = "done" /\ req[r].kind = "favorite"
                         /\ req[r].resp.view = "redirect" /\ req[r].user # 0
    /\ req[1].user = req[2].user
    /\ req[1].current_date = req[2].current_date

\* C2: two concurrent toggles of one user for one date end as some serial
\* order of the two ends: one of them added the favorite and the other
\* removed it, so the favorite is present afterwards exactly when the first
\* lookup found it, and neither request ended in an error.
C2_ConcurrentTogglesSerial ==
    BothToggled =>
        /\ (req[1].found = 0) # (req[2].found = 0)
        /\ Present(favorites, req[1].user, req[1].current_date)
               = (req[1].found # 0 /\ req[2].found # 0)
        /\ \A r \in {1, 2} : req[r].resp.status = 303

\* C3: the commit of a POST /favorite whose lookup is still current flips the
\* presence of its (user, date) favorite and leaves every other (user, date)
\* as it was.
C3_ToggleFlipsOnlyItsPair ==
    [][\A r \in Req :
          (Toggled(r)
           /\ req[r].found = FavoriteFirst(favorites, req[r].user, req[r].current_date))
          => /\ Present(favorites', req[r].user, req[r].current_date)
                    = ~Present(favorites, req[r].user, req[r].current_date)
             /\ \A i \in 1..Len(favorites) :
                    (favorites[i].owner_id # req[r].user
                     \/ favorites[i].apod_date # req[r].current_date)
                    => \E j \in 1..Len(favorites') : favorites'[j] = favorites[i]
             /\ \A j \in 1..Len(favorites') :
                    (favorites'[j].owner_id # req[r].user
                     \/ favorites'[j].apod_date # req[r].current_date)
                    => \E i \in 1..Len(favorites) : favorites[i] = favorites'[j]
      ]_vars

\* C4: a step of POST /favorite or GET /favorites for a request without the
\* access_token cookie ends the request with the redirect to /login, changes
\* neither table and issues no upstream fetch.
C4_AnonymousRedirectsUntouched ==
    [][\A r \in Req :
          (Acted(r) /\ req'[r].kind \in {"favorite", "favorites"}
           /\ ~req'[r].cookie.present)
          => /\ req'[r].pc = "done"
             /\ req'[r].resp.status = 303
             /\ req'[r].resp.location = "/login"
             /\ users' = users
             /\ favorites' = favorites
             /\ req'[r].fetches = <<>>
      ]_vars

\* An anonymous POST /favorite answered while the store holds a favorite.
C4_Witness ==
    \E r \in Req :
        /\ req[r].pc = "done" /\ req[r].kind = "favorite"
        /\ ~req[r].cookie.present
        /\ req[r].resp.location = "/login"
        /\ favorites # <<>>

\* A cookie that is present and names no session: it lacks the two parts of
\* "Bearer <token>", or its token is malformed, forged or expired, or its
\* subject is not a stored user.
Degraded(cookie) ==
    /\ cookie.present
    /\ \/ Len(cookie.parts) < 2
       \/ cookie.parts[2].text # "jwt"
       \/ cookie.parts[2].sig # "good"
       \/ cookie.parts[2].exp # "fresh"
       \/ \A i \in 1..Len(users) : users[i].username # cookie.parts[2].sub

\* C5: a request whose cookie is present and names no session is answered as
\* an anonymous one: GET / renders without a user, POST /favorite and
\* GET /favorites redirect to /login, and no handler ends in an exception.
C5_BrokenSessionIsAnonymous ==
    \A r \in Req :
        (req[r].pc = "done" /\ Degraded(req[r].cookie))
        => /\ req[r].kind = "root"
                  => req[r].resp.user = 0
                     /\ req[r].resp.error \notin {"IndexError", "NoSession"}
           /\ req[r].kind \in {"favorite", "favorites"}
                  => req[r].resp.status = 303 /\ req[r].resp.location = "/login"

\* C6: the users table never holds a username twice, a signup that commits
\* adds exactly its own user, and every signup is answered either with the
\* redirect to /login (the account was created) or with the signup form and
\* its inline error (the username was taken): of two concurrent signups for
\* one new username, one gets the redirect and the other the inline error.
C6_SignupRedirectOrInlineError ==
    /\ \A i, j \in 1..Len(users) : users[i].username = users[j].username => i = j
    /\ \A r \in Req :
           (req[r].pc = "done" /\ req[r].kind = "signup")
           => \/ /\ req[r].resp = Redirect("/login", <<>>)
                 /\ <<req[r].username, req[r].password>> \in signedUp
              \/ /\ req[r].resp = ErrorView("signup.html", "Username already exists", <<>>)
                 /\ \E i \in 1..Len(users) : users[i].username = req[r].username

\* C7: POST /login answers with the redirect to / and the access_token cookie
\* exactly when the username and the password are those of a signup that
\* succeeded; otherwise it sets no cookie and answers with the login form and
\* the one message "Invalid username or password", whether the username is
\* unknown or the password wrong; and it changes neither table.
C7_LoginIffCredentials ==
    [][\A r \in Req :
          (Acted(r) /\ req'[r].kind = "login")
          => /\ req'[r].pc = "done"
             /\ users' = users /\ favorites' = favorites
             /\ IF <<req'[r].username, req'[r].password>> \in signedUp
                THEN /\ req'[r].resp.status = 303
                     /\ req'[r].resp.location = "/"
                     /\ req'[r].resp.set_cookie.present
                     /\ req'[r].resp.set_cookie.parts[2].sub = req'[r].username
                ELSE /\ req'[r].resp =
                            ErrorView("login.html", "Invalid username or password", <<>>)
                     /\ ~req'[r].resp.set_cookie.present
      ]_vars

\* A login refused for a wrong password, for a user who has logged in before.
C7_Witness ==
    \E r \in Req :
        /\ req[r].pc = "done" /\ req[r].kind = "login"
        /\ req[r].username \in issued
        /\ <<req[r].username, req[r].password>> \notin signedUp
        /\ req[r].resp.error = "Invalid username or password"
        /\ \E p \in Passwords : <<req[r].username, p>> \in signedUp

\* C8: whatever the upstream fetch of GET / ends with, the request is answered
\* with a rendered view and status 200: an upstream 404 with the error "No
\* APOD found for <date>", every other failure with the generic error view.
C8_UpstreamFailureRendered ==
    \A r \in Req :
        (req[r].pc = "done" /\ req[r].kind = "root" /\ req[r].outcome # "")
        => /\ req[r].resp.status = 200
           /\ req[r].resp.view = "index.html"
           /\ req[r].outcome = "status_404"
                  => /\ req[r].resp.error = "No APOD found for"
                     /\ req[r].resp.date = Strftime(req[r].current_date)
           /\ req[r].outcome \in {"status_other", "request_error", "other_error"}
                  => req[r].resp.error # ""

\* A text that is a calendar date written YYYY-MM-DD.
IsIsoDateText(s) ==
    /\ Len(s) = 10
    /\ s[5] = "-" /\ s[8] = "-"
    /\ \A i \in {1, 2, 3, 4, 6, 7, 9, 10} : IsDigit(s[i])
    /\ LET y == ToInt(SubSeq(s, 1, 4))
           m == ToInt(SubSeq(s, 6, 7))
           d == ToInt(SubSeq(s, 9, 10))
       IN  y >= 1 /\ m \in 1..12 /\ d \in 1..DaysInMonth(y, m)

\* A text that names a calendar date with a year of four digits and a month
\* and a day of one or two digits each.
IsAcceptedDateText(s) ==
    \E a, b \in {1, 2} :
        /\ Len(s) = 6 + a + b
        /\ s[5] = "-" /\ s[6 + a] = "-"
        /\ \A i \in 1..Len(s) : i \notin {5, 6 + a} => IsDigit(s[i])
        /\ LET y == ToInt(SubSeq(s, 1, 4))
               m == ToInt(SubSeq(s, 6, 5 + a))
               d == ToInt(SubSeq(s, 7 + a, 6 + a + b))
           IN  y >= 1 /\ m \in 1..12 /\ d \in 1..DaysInMonth(y, m)

\* The answer of GET / to a date it does not take: the error view, with no
\* upstream fetch, no query on the favorites and no change of the store.
InvalidDateAnswer(r) ==
    /\ req'[r].pc = "done"
    /\ req'[r].resp = ErrorView("index.html",
                                "Invalid date format. Please use YYYY-MM-DD.", <<>>)
    /\ req'[r].fetches = <<>>
    /\ ~req'[r].favorites_read
    /\ favorites' = favorites /\ users' = users

\* C9 as stated: GET / with a date parameter that is not a calendar date
\* written YYYY-MM-DD gets the invalid-date error view with status 200,
\* issues no upstream fetch and neither reads nor writes the favorites, with
\* or without a session.
C9_NotIsoDateRejected ==
    [][\A r \in Req :
          (Acted(r) /\ req'[r].kind = "root" /\ req'[r].date.present
           /\ ~IsIsoDateText(req'[r].date.text))
          => InvalidDateAnswer(r)
      ]_vars

\* C9 as amended: GET / with a date parameter that is not empty and is not a
\* calendar date written with a four-digit year and a month and a day of one
\* or two digits gets the invalid-date error view with status 200, issues no
\* upstream fetch and neither reads nor writes the favorites, with or
\* without a session.
C9_UnparsedDateRejected ==
    [][\A r \in Req :
          (Acted(r) /\ req'[r].kind = "root" /\ req'[r].date.present
           /\ req'[r].date.text # <<>>
           /\ ~IsAcceptedDateText(req'[r].date.text))
          => InvalidDateAnswer(r)
      ]_vars

\* A request with a session and the date 2025-02-30, answered with the error.
C9_Witness ==
    \E r \in Req :
        /\ req[r].pc = "done" /\ req[r].kind = "root"
        /\ req[r].user # 0
        /\ req[r].date = Param(S_Feb30)
        /\ req[r].resp.error = "Invalid date format. Please use YYYY-MM-DD."
        /\ req[r].fetches = <<>>

\* C10: GET /favorites of a user with N stored favorites issues N fetches, the
\* i-th for the date of the i-th stored favorite, all of them before any
\* response has arrived; and the page it renders lists N entries, the i-th
\* being the response to the i-th fetch, in whatever order they arrived.
C10_ListingInStoredOrder ==
    /\ [][\A r \in Req :
             (Acted(r) /\ req[r].pc # "favorites_await"
              /\ req'[r].kind = "favorites" /\ req'[r].user # 0)
             => LET mine == SelectSeq(favorites, LAMBDA row : row.owner_id = req'[r].user)
                IN  /\ Len(req'[r].fetches) = Len(mine)
                    /\ Len(req'[r].results) = Len(mine)
                    /\ \A i \in 1..Len(mine) :
                           /\ req'[r].fetches[i] = Strftime(mine[i].apod_date)
                           /\ req'[r].pc # "done" => ~req'[r].results[i].arrived
         ]_vars
    /\ [](\A r \in Req :
             (req[r].pc = "done" /\ req[r].kind = "favorites"
              /\ req[r].resp.view = "favorites.html")
             => /\ Len(req[r].resp.apods) = Len(req[r].fetches)
                /\ Len(req[r].order) = Len(req[r].fetches)
                /\ \A i \in 1..Len(req[r].fetches) :
                       /\ req[r].resp.apods[i] = req[r].results[i].body
                       /\ req[r].resp.apods[i].date = req[r].fetches[i]
                       /\ \E k \in 1..Len(req[r].order) : req[r].order[k] = i)

\* A page of two favorites whose second response arrived first.
C10_Witness ==
    \E r \in Req :
        /\ req[r].pc = "done" /\ req[r].kind = "favorites"
        /\ req[r].resp.view = "favorites.html"
        /\ Len(req[r].resp.apods) = 2
        /\ req[r].order = <<2, 1>>
        /\ req[r].fetches[1] # req[r].fetches[2]

\* The end of GET /favorites when a fetch raised: a failure and no page.
ListingFailed(rq) == rq.resp.status = 500 /\ rq.resp.view # "favorites.html"
                     /\ rq.resp.apods = <<>>

\* The page of GET /favorites with one entry per response, in their order.
ListingRendered(rq) ==
    /\ rq.resp.status = 200 /\ rq.resp.view = "favorites.html"
    /\ Len(rq.resp.apods) = Len(rq.results)
    /\ \A i \in 1..Len(rq.results) : rq.resp.apods[i] = rq.results[i].body

AllArrived(rq) == \A i \in 1..Len(rq.results) : rq.results[i].arrived

\* C11 as stated: no step of GET /favorites changes the store; the request in
\* which a fetch raises ends in a failure with no page, not even a partial
\* one; and the request whose fetches all complete, whatever their status,
\* ends with the page of all their bodies.
C11_AllOrNothingAnyStatus ==
    [][\A r \in Req :
          (Acted(r) /\ req'[r].kind = "favorites" /\ req'[r].user # 0)
          => /\ users' = users /\ favorites' = favorites
             /\ req'[r].resp.view = "favorites.html" => req'[r].pc = "done"
             /\ (req'[r].pc = "done" /\ req'[r].outcome = "raise")
                    => ListingFailed(req'[r])
             /\ (req'[r].pc = "done" /\ req'[r].outcome # "raise")
                    => AllArrived(req'[r]) /\ ListingRendered(req'[r])
      ]_vars

\* C11 as amended: no step of GET /favorites changes the store; the request
\* in which a fetch raises ends in a failure with no page; the request whose
\* fetches all complete with JSON bodies, whatever their status, ends with
\* the page of all their bodies; and the request in which a fetch completes
\* with a body that is not JSON ends in a failure with no page.
C11_AllOrNothingJsonBodies ==
    [][\A r \in Req :
          (Acted(r) /\ req'[r].kind = "favorites" /\ req'[r].user # 0)
          => /\ users' = users /\ favorites' = favorites
             /\ req'[r].resp.view = "favorites.html" => req'[r].pc = "done"
             /\ (req'[r].pc = "done" /\ req'[r].outcome = "raise")
                    => ListingFailed(req'[r])
             /\ (req'[r].pc = "done" /\ req'[r].outcome # "raise")
                    => /\ AllArrived(req'[r])
                       /\ IF \A i \in 1..Len(req'[r].results) :
                                 req'[r].results[i].body.kind \in {"apod", "error"}
                          THEN ListingRendered(req'[r])
                          ELSE ListingFailed(req'[r])
      ]_vars

\* A page of two entries, one of them the body of a 404 response.
C11_Witness ==
    \E r \in Req :
        /\ req[r].pc = "done" /\ req[r].kind = "favorites"
        /\ req[r].resp.view = "favorites.html"
        /\ Len(req[r].resp.apods) = 2
        /\ req[r].results[1].status = 404 /\ req[r].results[2].status = 200
        /\ req[r].resp.apods[1] = ErrorBody(req[r].fetches[1])
        /\ favorites # <<>>

====
